---- MODULE Spec2Model ----
(***************************************************************************)
(* State-machine model of the Tap class of packages/threeGraphics/src/tap. *)
(* Tap attaches down/move/up DOM listeners for the touch, mouse and        *)
(* pointer input families, suppresses duplicate families, tracks a         *)
(* position and republishes `down`, `move`, `up` through an event emitter. *)
(***************************************************************************)
EXTENDS Integers, Sequences, FiniteSets, TLC

VARIABLES
  attached,         \* families whose three listeners are on the DOM element
  active,           \* Tap.active
  registered,       \* Tap.registered
  isDown,           \* Tap._isDown
  isPaused,         \* Tap._isPaused
  currentPosition,  \* Tap._currentPosition
  lastPosition,     \* Tap._lastPosition
  destroyed,        \* destroy() has run: the fields hold null
  locked,           \* !!document.pointerLockElement
  subs,             \* Tap._events: the listeners of each published kind
  onceCalls,        \* how often each callback given to once.* was invoked
  out,              \* what the last DOM listener call did (history)
  seen,             \* families that delivered a DOM event so far (history)
  lastBtn,          \* kind of the last down/up DOM event delivered (history)
  lateDown,         \* families that delivered a down event while a family
                    \* that supersedes them was registered (history)
  phase,            \* where each family stands in the current gesture
  gDown,            \* `down` events published during the current gesture
  gUp,              \* `up` events published during the current gesture
  gCount,           \* gestures begun so far
  promise,          \* what each promise of pointerLock.request()/exit() is
  plc,              \* promises with a pointerlockchange listener on document
  lockSubs,         \* promises whose once.down subscriber is registered
  settled,          \* promises that were resolved
  lockPending,      \* requestPointerLock() was called and is not answered
  exitPending,      \* exitPointerLock() was called and is not answered
  held              \* isLocked of a pointerLock object the caller kept

prog == <<attached, active, registered, isDown, isPaused, currentPosition,
          lastPosition, destroyed, locked, subs>>
hist == <<onceCalls, out, seen, lastBtn, lateDown>>
gest == <<phase, gDown, gUp, gCount>>
lockv == <<promise, plc, lockSubs, settled, lockPending, exitPending, held>>

vars == <<prog, hist, gest, lockv>>

----------------------------------------------------------------------------
(* Bounds of the model *)

\* client / page / movement coordinates range over 0..MaxCoord (SpecPos)
MaxCoord == 1
\* number of physical gestures of a run (SpecGesture)
MaxGestures == 2
\* number of calls of pointerLock.request() / pointerLock.exit() of a run
MaxPromises == 3
\* number of distinct callback functions the application hands to on.* / once.*
MaxCallbacks == 2

Coord == 0..MaxCoord
\* the coordinates of the events where positions are not the subject
BasicCoord == {1}
CallbackIds == 1..MaxCallbacks
PromiseIds == 1..MaxPromises

----------------------------------------------------------------------------
(* Types *)

Families == {"touch", "mouse", "pointer"}
Kinds == {"down", "move", "up"}

\* JavaScript `undefined` as the value of a numeric event field
Undefined == -99

\* the DOM event name of each family and kind
EventName(f, k) ==
  CASE f = "touch" /\ k = "down" -> "touchstart"
    [] f = "touch" /\ k = "move" -> "touchmove"
    [] f = "touch" /\ k = "up" -> "touchend"
    [] f = "mouse" /\ k = "down" -> "mousedown"
    [] f = "mouse" /\ k = "move" -> "mousemove"
    [] f = "mouse" /\ k = "up" -> "mouseup"
    [] f = "pointer" /\ k = "down" -> "pointerdown"
    [] f = "pointer" /\ k = "move" -> "pointermove"
    [] f = "pointer" /\ k = "up" -> "pointerup"

Pos(x, y) == [x |-> x, y |-> y]

\* the initial value of _currentPosition and _lastPosition
InitialPosition == Pos(-1, -1)

\* the value of a position field after destroy() (null)
NullPosition == Pos(Undefined, Undefined)

\* A touch event: a (possibly empty) touch list, no client coordinates,
\* no movement delta.
TouchEvents(f, k, C) ==
  { [type |-> EventName(f, k), touches |-> t, clientX |-> Undefined,
     clientY |-> Undefined, movementX |-> Undefined, movementY |-> Undefined] :
    t \in {<<>>} \cup { <<Pos(x, y)>> : x \in C, y \in C } }

\* the movement deltas (movementX, movementY) of the events: one for each
\* movementX of C, with movementY running the other way
Deltas(C) ==
  LET lo == CHOOSE x \in C : \A y \in C : x <= y
      hi == CHOOSE x \in C : \A y \in C : x >= y
  IN { Pos(x, lo + hi - x) : x \in C }

\* A mouse or pointer event: no touch list, client coordinates (absent on a
\* synthetic event that carries none) and a movement delta.  The movement
\* delta is read by the code only under pointer lock, so it is enumerated
\* only then.
CursorEvents(f, k, C) ==
  { [type |-> EventName(f, k), touches |-> <<>>, clientX |-> c.x,
     clientY |-> c.y, movementX |-> m.x, movementY |-> m.y] :
    c \in {Pos(Undefined, Undefined)} \cup { Pos(x, y) : x \in C, y \in C },
    m \in IF locked THEN Deltas(C) ELSE {Pos(0, 0)} }

DomEvents(f, k, C) ==
  IF f = "touch" THEN TouchEvents(f, k, C) ELSE CursorEvents(f, k, C)

NoEvent == [type |-> "none", touches |-> <<>>, clientX |-> Undefined,
            clientY |-> Undefined, movementX |-> Undefined, movementY |-> Undefined]

NoOut == [event |-> NoEvent, family |-> "none", kind |-> "none",
          proceed |-> FALSE, published |-> "none", position |-> InitialPosition,
          dragging |-> FALSE, invoked |-> {}, locked |-> FALSE, paused |-> FALSE]

----------------------------------------------------------------------------
(* Pure parts of the code *)

\* JavaScript truthiness of a numeric field: undefined and 0 are falsy
Truthy(n) == n # Undefined /\ n # 0

\* mutant of CalcPosition: pointer lock is not looked at
CalcPositionNoLock(e, cur, isLocked) ==
  IF Len(e.touches) > 0
    THEN Pos(e.touches[1].x, e.touches[1].y)
  ELSE IF Truthy(e.clientX)
    THEN Pos(e.clientX, e.clientY)
  ELSE Pos(cur.x, cur.y)

\* _calcPosition: the position computed for event e
CalcPosition(e, cur, isLocked) ==
  LET abs == IF Len(e.touches) > 0
               THEN Pos(e.touches[1].x, e.touches[1].y)
             ELSE IF Truthy(e.clientX)
               THEN Pos(e.clientX, e.clientY)
             ELSE Pos(cur.x, cur.y)
  IN IF isLocked THEN Pos(e.movementX, e.movementY) ELSE abs

\* mutant of SetPosition: _lastPosition is never written
SetPositionKeepsLast(position, cur, last) ==
  IF position.x = cur.x /\ position.y = cur.y
    THEN <<cur, last>>
    ELSE <<position, last>>

\* mutant of SetPosition: the history is written on every event
SetPositionAlways(position, cur, last) == <<position, cur>>

\* the _position setter: the new <<_currentPosition, _lastPosition>>
SetPosition(position, cur, last) ==
  IF position.x = cur.x /\ position.y = cur.y
    THEN <<cur, last>>
    ELSE <<position, cur>>

\* mutant of IsDuplicate: a touchstart is never a duplicate
IsDuplicateMouseOnly(e, act, reg) ==
  e.type = "mousedown" /\ act["mouse"] /\ (reg["pointer"] \/ reg["touch"])

\* mutant of IsDuplicate: touch does not supersede mouse
IsDuplicatePointerOnly(e, act, reg) ==
  \/ e.type = "touchstart" /\ act["touch"] /\ reg["pointer"]
  \/ e.type = "mousedown" /\ act["mouse"] /\ reg["pointer"]

\* mutant of IsDuplicate: mouse supersedes touch as touch supersedes mouse
IsDuplicateSymmetric(e, act, reg) ==
  \/ e.type = "touchstart" /\ act["touch"] /\ (reg["pointer"] \/ reg["mouse"])
  \/ e.type = "mousedown" /\ act["mouse"] /\ (reg["pointer"] \/ reg["touch"])

\* _removeDuplicates, its test: TRUE when the down event e is to be discarded
\* and the family detached (reg is `registered` after e's family was marked)
IsDuplicate(e, act, reg) ==
  \/ e.type = "touchstart" /\ act["touch"] /\ reg["pointer"]
  \/ e.type = "mousedown" /\ act["mouse"] /\ (reg["pointer"] \/ reg["touch"])

\* mutant of Register: marking a family forgets the other families
RegisterOnly(e, reg) ==
  [f \in Families |->
     \/ e.type = "pointerdown" /\ f = "pointer"
     \/ e.type = "touchstart" /\ f = "touch"
     \/ e.type = "mousedown" /\ f = "mouse"]

\* _removeDuplicates, its marking of the family of e as registered
Register(e, reg) ==
  [f \in Families |->
     IF \/ e.type = "pointerdown" /\ f = "pointer"
        \/ e.type = "touchstart" /\ f = "touch"
        \/ e.type = "mousedown" /\ f = "mouse"
       THEN TRUE ELSE reg[f]]

\* _removeDuplicates, the family it detaches
DuplicateFamily(e) == IF e.type = "touchstart" THEN "touch" ELSE "mouse"

\* mutant of Delivers: the wrapper of on.* forgets the pause flag
DeliversAlways(s, paused) == TRUE

\* the wrapper on.* installs calls back unless paused; the wrapper once.*
\* installs always does
Delivers(s, paused) == s.once \/ ~paused

\* the callbacks _events.emit(k, ...) invokes
Invoked(k, paused) == { s.cb : s \in { t \in subs[k] : Delivers(t, paused) } }

\* mutant of AfterEmit: a once listener stays registered
AfterEmitKeepsOnce(k) == subs[k]

\* the listeners of kind k that emit leaves registered: the once ones go
AfterEmit(k) == { s \in subs[k] : ~s.once }

----------------------------------------------------------------------------
(* Construction *)

\* _add with the families of eventMatrix for which test && enabled holds
Add(S) ==
  /\ active = [f \in Families |-> f \in S]
  /\ attached = S

Init ==
  /\ \E S \in SUBSET Families : Add(S)
  /\ registered = [f \in Families |-> FALSE]
  /\ isDown = FALSE
  /\ isPaused = FALSE
  /\ currentPosition = InitialPosition
  /\ lastPosition = InitialPosition
  /\ destroyed = FALSE
  /\ locked = FALSE
  /\ subs = [k \in Kinds |-> {}]
  /\ onceCalls = [k \in Kinds |-> [c \in CallbackIds |-> 0]]
  /\ out = NoOut
  /\ seen = {}
  /\ lastBtn = "none"
  /\ lateDown = {}
  /\ phase = [f \in Families |-> "none"]
  /\ gDown = 0
  /\ gUp = 0
  /\ gCount = 0
  /\ promise = [p \in PromiseIds |-> "unused"]
  /\ plc = {}
  /\ lockSubs = {}
  /\ settled = {}
  /\ lockPending = FALSE
  /\ exitPending = FALSE
  /\ held = {}

\* construction where one single family passes test && enabled
InitSingle == Init /\ Cardinality(attached) = 1

----------------------------------------------------------------------------
(* Publishing *)

\* _events.emit(k, {position, event, dragging}) after _calcPosition(e)
Emit(f, k, e, drag) ==
  LET position == CalcPosition(e, currentPosition, locked)
      np == SetPosition(position, currentPosition, lastPosition)
  IN /\ currentPosition' = np[1]
     /\ lastPosition' = np[2]
     /\ subs' = [subs EXCEPT ![k] = AfterEmit(k)]
     /\ onceCalls' = [onceCalls EXCEPT ![k] =
                        [c \in CallbackIds |->
                           IF \E s \in subs[k] : s.once /\ s.cb = c
                             THEN @[c] + 1 ELSE @[c]]]
     /\ lockSubs' = IF k = "down" THEN {} ELSE lockSubs
     /\ lockPending' = (lockPending \/ (k = "down" /\ lockSubs # {}))
     /\ out' = [event |-> e, family |-> f, kind |-> k, proceed |-> TRUE,
                published |-> k, position |-> position, dragging |-> drag,
                invoked |-> Invoked(k, isPaused), locked |-> locked,
                paused |-> isPaused]

\* mutant of Remove: the listeners are detached, the family stays active
RemoveKeepsActive(type) ==
  IF active[type]
    THEN /\ attached' = attached \ {type}
         /\ active' = active
    ELSE UNCHANGED <<attached, active>>

\* mutant of Remove: nothing is detached, the family stays active
RemoveNothing(type) == UNCHANGED <<attached, active>>

\* _remove(type)
Remove(type) ==
  IF active[type]
    THEN /\ attached' = attached \ {type}
         /\ active' = [active EXCEPT ![type] = FALSE]
    ELSE UNCHANGED <<attached, active>>

----------------------------------------------------------------------------
(* DOM listeners *)

\* mutant of OnDown: _isDown is set before the duplicate test
OnDownEager(f, e) ==
  /\ registered' = Register(e, registered)
  /\ isDown' = TRUE
  /\ IF IsDuplicate(e, active, Register(e, registered))
       THEN /\ Remove(DuplicateFamily(e))
            /\ out' = [NoOut EXCEPT !.event = e, !.family = f, !.kind = "down",
                                    !.locked = locked, !.paused = isPaused]
            /\ UNCHANGED <<currentPosition, lastPosition, subs, onceCalls,
                           lockSubs, lockPending>>
       ELSE /\ Emit(f, "down", e, FALSE)
            /\ UNCHANGED <<attached, active>>

\* _onDown
OnDown(f, e) ==
  /\ registered' = Register(e, registered)
  /\ IF IsDuplicate(e, active, Register(e, registered))
       THEN /\ Remove(DuplicateFamily(e))
            /\ out' = [NoOut EXCEPT !.event = e, !.family = f, !.kind = "down",
                                    !.locked = locked, !.paused = isPaused]
            /\ UNCHANGED <<isDown, currentPosition, lastPosition, subs, onceCalls,
                           lockSubs, lockPending>>
       ELSE /\ isDown' = TRUE
            /\ Emit(f, "down", e, FALSE)
            /\ UNCHANGED <<attached, active>>

\* mutant of OnMove: the move is never reported as dragging
OnMoveNotDragging(f, e) ==
  /\ Emit(f, "move", e, FALSE)
  /\ UNCHANGED <<attached, active, registered, isDown>>

\* _onMove
OnMove(f, e) ==
  /\ Emit(f, "move", e, isDown)
  /\ UNCHANGED <<attached, active, registered, isDown>>

\* mutant of OnUp: the up event leaves isDown set
OnUpKeepsDown(f, e) ==
  /\ isDown' = isDown
  /\ Emit(f, "up", e, FALSE)
  /\ UNCHANGED <<attached, active, registered>>

\* _onUp
OnUp(f, e) ==
  /\ isDown' = FALSE
  /\ Emit(f, "up", e, FALSE)
  /\ UNCHANGED <<attached, active, registered>>

\* family f is superseded: a family that takes precedence over it is registered
Superseded(f, reg) ==
  \/ f = "touch" /\ reg["pointer"]
  \/ f = "mouse" /\ (reg["pointer"] \/ reg["touch"])

\* the listener the DOM element calls for an event of family f and kind k
Listener(f, k, e) ==
  /\ f \in attached
  /\ CASE k = "down" -> OnDown(f, e)
       [] k = "move" -> OnMove(f, e)
       [] k = "up" -> OnUp(f, e)
  /\ seen' = seen \cup {f}
  /\ lastBtn' = IF k = "move" THEN lastBtn ELSE k
  /\ lateDown' = IF k = "down" /\ Superseded(f, registered)
                   THEN lateDown \cup {f} ELSE lateDown
  /\ UNCHANGED <<isPaused, destroyed, locked, promise, plc, settled,
                 exitPending, held>>

\* the browser dispatches an event with coordinates in C to the element
Dispatch(k, C) ==
  /\ \E f \in Families : \E e \in DomEvents(f, k, C) : Listener(f, k, e)
  /\ UNCHANGED gest

DomDown == Dispatch("down", BasicCoord)
DomMove == Dispatch("move", BasicCoord)
DomUp == Dispatch("up", BasicCoord)

PosDown == Dispatch("down", Coord)
PosMove == Dispatch("move", Coord)
PosUp == Dispatch("up", Coord)

----------------------------------------------------------------------------
(* Public operations *)

\* pause()
Pause ==
  /\ ~isPaused
  /\ isPaused' = TRUE
  /\ UNCHANGED <<attached, active, registered, isDown, currentPosition,
                 lastPosition, destroyed, locked, subs, hist, gest, lockv>>

\* resume()
Resume ==
  /\ isPaused
  /\ isPaused' = FALSE
  /\ UNCHANGED <<attached, active, registered, isDown, currentPosition,
                 lastPosition, destroyed, locked, subs, hist, gest, lockv>>

\* a callback function is handed to on.* / once.* at most once
Unused(c) ==
  \A k \in Kinds : onceCalls[k][c] = 0 /\ (\A s \in subs[k] : s.cb # c)

\* on.down / on.move / on.up
On(k, c) ==
  /\ ~destroyed
  /\ Unused(c)
  /\ subs' = [subs EXCEPT ![k] = @ \cup {[cb |-> c, once |-> FALSE]}]
  /\ UNCHANGED <<attached, active, registered, isDown, isPaused, currentPosition,
                 lastPosition, destroyed, locked, hist, gest, lockv>>

\* once.down / once.move / once.up
Once(k, c) ==
  /\ ~destroyed
  /\ Unused(c)
  /\ subs' = [subs EXCEPT ![k] = @ \cup {[cb |-> c, once |-> TRUE]}]
  /\ UNCHANGED <<attached, active, registered, isDown, isPaused, currentPosition,
                 lastPosition, destroyed, locked, hist, gest, lockv>>

Subscribe == \E k \in Kinds : \E c \in CallbackIds : On(k, c)
SubscribeOnce == \E k \in Kinds : \E c \in CallbackIds : Once(k, c)

\* on.down / once.down alone
SubscribeDown == \E c \in CallbackIds : On("down", c)
SubscribeOnceDown == \E c \in CallbackIds : Once("down", c)

\* mutant of Destroy: the loop over _remove is left out
DestroyKeepsListeners ==
  /\ ~destroyed
  /\ destroyed' = TRUE
  /\ attached' = attached
  /\ subs' = [k \in Kinds |-> {}]
  /\ isDown' = FALSE
  /\ isPaused' = FALSE
  /\ active' = [f \in Families |-> FALSE]
  /\ registered' = [f \in Families |-> FALSE]
  /\ currentPosition' = NullPosition
  /\ lastPosition' = NullPosition
  /\ lockSubs' = {}
  /\ UNCHANGED <<locked, hist, gest, promise, plc, settled, lockPending,
                 exitPending, held>>

\* destroy(): pause, detach every active family, drop the listeners, null
\* the fields (null is FALSE / NullPosition here, with destroyed = TRUE)
Destroy ==
  /\ ~destroyed
  /\ destroyed' = TRUE
  /\ attached' = attached \ { f \in Families : active[f] }
  /\ subs' = [k \in Kinds |-> {}]
  /\ isDown' = FALSE
  /\ isPaused' = FALSE
  /\ active' = [f \in Families |-> FALSE]
  /\ registered' = [f \in Families |-> FALSE]
  /\ currentPosition' = NullPosition
  /\ lastPosition' = NullPosition
  /\ lockSubs' = {}
  /\ UNCHANGED <<locked, hist, gest, promise, plc, settled, lockPending,
                 exitPending, held>>

\* a pointerlockchange event on document: every { once: true } listener
\* resolves its promise and is gone
FirePointerLockChange ==
  /\ settled' = settled \cup plc
  /\ plc' = {}

\* the document gains or loses its pointer-lock element
PointerLockChange ==
  /\ locked' = ~locked
  /\ FirePointerLockChange
  /\ UNCHANGED <<attached, active, registered, isDown, isPaused, currentPosition,
                 lastPosition, destroyed, subs, hist, gest, promise, lockSubs,
                 lockPending, exitPending, held>>

----------------------------------------------------------------------------
(* Pointer lock *)

\* promises are numbered in the order the calls create them
Fresh(p) ==
  /\ promise[p] = "unused"
  /\ \A q \in PromiseIds : q < p => promise[q] # "unused"

\* mutant of RequestBody: request() does not test isLocked
RequestBodyUnchecked(p) ==
  /\ plc' = plc \cup {p}
  /\ lockSubs' = lockSubs \cup {p}

\* the executor of the promise of pointerLock.request(): nothing when locked,
\* else a pointerlockchange listener and a once.down subscriber that calls
\* domElement.requestPointerLock()
RequestBody(p) ==
  IF locked
    THEN UNCHANGED <<plc, lockSubs>>
    ELSE /\ plc' = plc \cup {p}
         /\ lockSubs' = lockSubs \cup {p}

\* pointerLock.request(), returning promise p (promise records the call and
\* whether the document was locked when it was made)
PointerLockRequest(p) ==
  /\ ~destroyed
  /\ Fresh(p)
  /\ promise' = [promise EXCEPT ![p] = IF locked THEN "request_noop" ELSE "request"]
  /\ RequestBody(p)
  /\ UNCHANGED <<prog, hist, gest, settled, lockPending, exitPending, held>>

\* the executor of the promise of pointerLock.exit(): nothing when not locked,
\* else a pointerlockchange listener and document.exitPointerLock()
ExitBody(p) ==
  IF ~locked
    THEN UNCHANGED <<plc, exitPending>>
    ELSE /\ plc' = plc \cup {p}
         /\ exitPending' = TRUE

\* pointerLock.exit(), returning promise p
PointerLockExit(p) ==
  /\ ~destroyed
  /\ Fresh(p)
  /\ promise' = [promise EXCEPT ![p] = IF locked THEN "exit" ELSE "exit_noop"]
  /\ ExitBody(p)
  /\ UNCHANGED <<prog, hist, gest, lockSubs, settled, lockPending, held>>

Request == \E p \in PromiseIds : PointerLockRequest(p)
Exit == \E p \in PromiseIds : PointerLockExit(p)

\* the caller evaluates tap.pointerLock and keeps the object: its isLocked is
\* !!document.pointerLockElement of that moment
GetPointerLock ==
  /\ ~destroyed
  /\ held' = {locked}
  /\ UNCHANGED <<prog, hist, gest, promise, plc, lockSubs, settled, lockPending,
                 exitPending>>

\* the browser grants a requestPointerLock(): the element is the pointer-lock
\* element and pointerlockchange fires
LockGranted ==
  /\ lockPending
  /\ lockPending' = FALSE
  /\ locked' = TRUE
  /\ FirePointerLockChange
  /\ UNCHANGED <<attached, active, registered, isDown, isPaused, currentPosition,
                 lastPosition, destroyed, subs, hist, gest, promise, lockSubs,
                 exitPending, held>>

\* the browser refuses a requestPointerLock() (pointerlockerror)
LockDenied ==
  /\ lockPending
  /\ lockPending' = FALSE
  /\ UNCHANGED <<prog, hist, gest, promise, plc, lockSubs, settled, exitPending, held>>

\* the lock ends, by exitPointerLock() or by the user: pointerlockchange fires
Unlocked ==
  /\ locked
  /\ locked' = FALSE
  /\ exitPending' = FALSE
  /\ FirePointerLockChange
  /\ UNCHANGED <<attached, active, registered, isDown, isPaused, currentPosition,
                 lastPosition, destroyed, subs, hist, gest, promise, lockSubs,
                 lockPending, held>>

----------------------------------------------------------------------------
(* Physical gestures: for one gesture the browser fires, for each family   *)
(* of a set G, one down event, then move events, then one up event; the    *)
(* families' events interleave in any order.  An event of a family whose   *)
(* listeners are detached reaches no listener.                             *)

GestureOver == \A f \in Families : phase[f] \in {"none", "up"}

GestureBegin ==
  /\ ~destroyed
  /\ GestureOver
  /\ gCount < MaxGestures
  /\ \E G \in SUBSET { f \in Families : active[f] } :
       /\ Cardinality(G) >= 2
       /\ phase' = [f \in Families |-> IF f \in G THEN "idle" ELSE "none"]
  /\ gDown' = 0
  /\ gUp' = 0
  /\ gCount' = gCount + 1
  /\ UNCHANGED <<prog, hist, lockv>>

GestureFire(f, k, e) ==
  /\ phase[f] = (IF k = "down" THEN "idle" ELSE "down")
  /\ phase' = [phase EXCEPT ![f] = IF k = "move" THEN "down" ELSE k]
  /\ gCount' = gCount
  /\ IF f \in attached
       THEN /\ Listener(f, k, e)
            /\ gDown' = gDown + (IF out'.published = "down" THEN 1 ELSE 0)
            /\ gUp' = gUp + (IF out'.published = "up" THEN 1 ELSE 0)
       ELSE UNCHANGED <<prog, hist, lockv, gDown, gUp>>

GestureDown ==
  \E f \in Families : \E e \in DomEvents(f, "down", BasicCoord) : GestureFire(f, "down", e)
GestureMove ==
  \E f \in Families : \E e \in DomEvents(f, "move", BasicCoord) : GestureFire(f, "move", e)
GestureUp ==
  \E f \in Families : \E e \in DomEvents(f, "up", BasicCoord) : GestureFire(f, "up", e)

----------------------------------------------------------------------------
(* Specifications *)

(* Spec: the input families, duplicate suppression, pause and destroy *)
Next ==
  \/ DomDown
  \/ DomMove
  \/ DomUp
  \/ Pause
  \/ Resume
  \/ Destroy

Spec == Init /\ [][Next]_vars

(* SpecSubs: the subscription surface *)
NextSubs ==
  \/ DomDown
  \/ DomMove
  \/ DomUp
  \/ Pause
  \/ Resume
  \/ Subscribe
  \/ SubscribeOnce
  \/ Destroy

SpecSubs == InitSingle /\ [][NextSubs]_vars

(* SpecPos: the position computation over the whole coordinate range *)
NextPos ==
  \/ PosDown
  \/ PosMove
  \/ PosUp
  \/ PointerLockChange

SpecPos == InitSingle /\ [][NextPos]_vars

(* SpecLock: pointerLock.request() / exit() / isLocked with one family *)
NextLock ==
  \/ DomDown
  \/ DomMove
  \/ DomUp
  \/ Pause
  \/ Resume
  \/ Request
  \/ Exit
  \/ GetPointerLock
  \/ LockGranted
  \/ LockDenied
  \/ Unlocked

SpecLock == InitSingle /\ [][NextLock]_vars

(* SpecLife: several families, down subscribers, a lock request, destroy *)
NextLife ==
  \/ DomDown
  \/ DomMove
  \/ DomUp
  \/ Pause
  \/ Resume
  \/ SubscribeDown
  \/ SubscribeOnceDown
  \/ PointerLockRequest(1)
  \/ Destroy

\* construction where two families pass test && enabled
InitPair == Init /\ Cardinality(attached) = 2

SpecLife == InitPair /\ [][NextLife]_vars

(* SpecGesture: physical gestures that fire several families *)
NextGesture ==
  \/ GestureBegin
  \/ GestureDown
  \/ GestureMove
  \/ GestureUp

SpecGesture == Init /\ [][NextGesture]_vars

----------------------------------------------------------------------------
(* Steps, as the claims speak of them *)

\* a step in which the listener handles an event of family f and kind k
\* (out' records the event the step handled)
Handled(f, k) ==
  /\ out'.family = f
  /\ out'.kind = k
  /\ Listener(f, k, out'.event)

\* a step that publishes an event of kind k
Published(k) ==
  /\ out'.kind = k
  /\ out'.published = k
  /\ \E f \in Families : Handled(f, k)

----------------------------------------------------------------------------
(* Claims *)

\* C1: as long as the DOM events all come from one single input family,
\* isDown is true exactly when the last down/up event delivered is a down
\* (false before the first down and after each up).
C1_IsDownBetweenDownAndUp ==
  (~destroyed /\ Cardinality(seen) <= 1) => (isDown = (lastBtn = "down"))

\* C1 witness: one family only, a down then a move, isDown still true
C1_Witness ==
  /\ Cardinality(seen) = 1
  /\ lastBtn = "down"
  /\ out.kind = "move"
  /\ isDown
  /\ ~destroyed

\* C2: a touchstart handled while touch is active and pointer is registered
\* deactivates the touch family (its listeners are detached) and publishes
\* no down event.
C2_TouchstartAfterPointerdown ==
  [][ (Handled("touch", "down") /\ active["touch"] /\ registered["pointer"])
        => /\ ~active'["touch"]
           /\ "touch" \notin attached'
           /\ out'.published = "none"
           /\ out'.invoked = {}
           /\ UNCHANGED <<isDown, subs>> ]_vars

\* C2 witness: the last event is a discarded touchstart, pointer registered
C2_Witness ==
  /\ out.event.type = "touchstart"
  /\ out.published = "none"
  /\ registered["pointer"]
  /\ ~active["touch"]
  /\ "touch" \notin attached

\* C3: a mousedown handled while mouse is active and touch or pointer is
\* registered deactivates the mouse family (its listeners are detached) and
\* publishes no down event.
C3_MousedownAfterTouchOrPointer ==
  [][ (/\ Handled("mouse", "down")
       /\ active["mouse"]
       /\ (registered["touch"] \/ registered["pointer"]))
        => /\ ~active'["mouse"]
           /\ "mouse" \notin attached'
           /\ out'.published = "none"
           /\ out'.invoked = {}
           /\ UNCHANGED <<isDown, subs>> ]_vars

\* C3 witness: the last event is a discarded mousedown, touch registered and
\* pointer not
C3_Witness ==
  /\ out.event.type = "mousedown"
  /\ out.published = "none"
  /\ registered["touch"]
  /\ ~registered["pointer"]
  /\ ~active["mouse"]
  /\ "mouse" \notin attached

\* C4 as claimed: once pointer is registered at most one of touch and mouse
\* is active, and once pointer or touch is registered mouse is not active.
C4_Original ==
  /\ registered["pointer"] => ~(active["touch"] /\ active["mouse"])
  /\ (registered["pointer"] \/ registered["touch"]) => ~active["mouse"]

\* C4 amended: suppression is lazy.  Touch is not active once it has
\* delivered a touchstart while pointer was registered, and mouse is not
\* active once it has delivered a mousedown while pointer or touch was
\* registered; until then a superseded family may still be active.
C4_LazyDeactivation ==
  \A f \in lateDown : ~active[f] /\ f \notin attached

\* C4 witness: pointer registered, touch deactivated by its late touchstart,
\* mouse superseded and still active
C4_Witness ==
  /\ registered["pointer"]
  /\ "touch" \in lateDown
  /\ ~active["touch"]
  /\ active["mouse"]
  /\ ~destroyed

\* C5 as claimed: a gesture that fires the events of several active
\* families, in any order, publishes exactly one down and exactly one up.
C5_OneDownOneUpPerGesture ==
  (gCount > 0 /\ GestureOver) => (gDown = 1 /\ gUp = 1)

\* C6: a touchstart handled after a mousedown, with no pointerdown ever,
\* is not suppressed (touch stays active, isDown becomes true, a down is
\* published); and no mouse event deactivates the touch or pointer family.
C6_MouseNeverSupersedes ==
  [][ /\ (/\ Handled("touch", "down")
          /\ registered["mouse"]
          /\ ~registered["pointer"])
        => /\ active'["touch"]
           /\ "touch" \in attached'
           /\ isDown'
           /\ out'.published = "down"
      /\ (\E k \in Kinds : Handled("mouse", k))
        => /\ active'["touch"] = active["touch"]
           /\ active'["pointer"] = active["pointer"]
           /\ ("touch" \in attached') = ("touch" \in attached)
           /\ ("pointer" \in attached') = ("pointer" \in attached) ]_vars

\* C6 witness: a published touchstart after a mousedown, no pointerdown
C6_Witness ==
  /\ out.event.type = "touchstart"
  /\ out.published = "down"
  /\ registered["mouse"]
  /\ ~registered["pointer"]
  /\ active["touch"]
  /\ isDown

\* the callbacks registered for kind k through once.* / through on.*
OnceCallbacks(k) == { s.cb : s \in { t \in subs[k] : t.once } }
OnCallbacks(k) == { s.cb : s \in { t \in subs[k] : ~t.once } }

\* C7: a published event invokes every once.* callback of its kind, and the
\* on.* callbacks of its kind exactly when the instance is not paused at
\* that moment; paused or not, isDown follows the kind of the event and the
\* current position becomes the published position.
C7_PauseGatesOnOnly ==
  [][ \A k \in Kinds : Published(k) =>
        /\ out'.invoked = OnceCallbacks(k) \cup (IF isPaused THEN {} ELSE OnCallbacks(k))
        /\ isDown' = (IF k = "move" THEN isDown ELSE k = "down")
        /\ currentPosition' = out'.position ]_vars

\* C7 witness: a down published while paused set isDown, invoked a once
\* callback and skipped an on callback
C7_Witness ==
  /\ out.published = "down"
  /\ out.paused
  /\ isDown
  /\ out.invoked # {}
  /\ OnCallbacks("down") # {}
  /\ OnCallbacks("down") \cap out.invoked = {}

\* C8: a callback given to once.k is invoked by the first event of kind k
\* published after its registration, is unregistered by it, and is invoked
\* by no later event: it is never invoked twice.
C8_OnceExactlyOnce ==
  /\ [](\A k \in Kinds : \A c \in CallbackIds :
          /\ onceCalls[k][c] <= 1
          /\ c \in OnceCallbacks(k) => onceCalls[k][c] = 0)
  /\ [][ \A k \in Kinds : Published(k) =>
           /\ OnceCallbacks(k) \subseteq out'.invoked
           /\ \A c \in OnceCallbacks(k) : onceCalls'[k][c] = 1
           /\ OnceCallbacks(k)' = {}
           /\ \A c \in CallbackIds : onceCalls[k][c] = 1 => c \notin out'.invoked ]_vars

\* C8 witness: a once.down callback was invoked, and a later published down
\* (here under pause) did not invoke it again
C8_Witness ==
  \E c \in CallbackIds :
    /\ onceCalls["down"][c] = 1
    /\ out.published = "down"
    /\ c \notin out.invoked
    /\ out.paused

\* C9 as claimed: without pointer lock, an event with no touch point and
\* with client coordinates is published at (clientX, clientY).
C9_ClientCoordinates ==
  (/\ out.published # "none"
   /\ ~out.locked
   /\ Len(out.event.touches) = 0
   /\ out.event.clientX # Undefined)
    => out.position = Pos(out.event.clientX, out.event.clientY)

\* C10: without pointer lock, an event with neither touch points nor client
\* coordinates is published at the currentPosition of before the event and
\* leaves currentPosition and lastPosition unchanged.
C10_PositionFallback ==
  [][ (/\ \E k \in Kinds : Published(k)
       /\ ~locked
       /\ Len(out'.event.touches) = 0
       /\ out'.event.clientX = Undefined)
        => /\ out'.position = currentPosition
           /\ UNCHANGED <<currentPosition, lastPosition>> ]_vars

\* C10 witness: an event without coordinates published at a position an
\* earlier event had set
C10_Witness ==
  /\ out.published # "none"
  /\ ~out.locked
  /\ Len(out.event.touches) = 0
  /\ out.event.clientX = Undefined
  /\ out.position = currentPosition
  /\ currentPosition # InitialPosition
  /\ lastPosition # currentPosition

\* C11: an event processed under pointer lock is published at its movement
\* delta (movementX, movementY), whatever its touch points, its client
\* coordinates and the previous position, and currentPosition becomes that
\* delta.
C11_MovementDeltaUnderLock ==
  (~destroyed /\ out.published # "none" /\ out.locked)
    => /\ out.position = Pos(out.event.movementX, out.event.movementY)
       /\ currentPosition = out.position

\* C11 witness: under lock an event with client coordinates that differ from
\* its movement delta, and from the previous position, is published at the
\* delta
C11_Witness ==
  /\ out.published = "move"
  /\ out.locked
  /\ out.event.clientX # Undefined
  /\ Pos(out.event.clientX, out.event.clientY) # out.position
  /\ out.position = Pos(out.event.movementX, out.event.movementY)
  /\ currentPosition = out.position
  /\ lastPosition # InitialPosition

\* C12 as claimed: a promise of request() made while not locked is resolved
\* only after a down published after the call has run its subscriber (which
\* calls requestPointerLock), never by a pointerlockchange that comes before
\* that down.
C12_ResolvedAfterItsDown ==
  \A p \in PromiseIds :
    (promise[p] = "request" /\ p \in settled) => p \notin lockSubs

\* a step in which pointerlockchange fires
PointerLockChangeFires == LockGranted \/ Unlocked \/ PointerLockChange

\* C13: request() while locked and exit() while not locked do nothing: no
\* pointerlockchange listener, no down subscriber, no requestPointerLock or
\* exitPointerLock call, no state change, and their promise never settles;
\* exit() while locked calls exitPointerLock and its promise is resolved by the
\* next pointerlockchange.
C13_NoOpCalls ==
  [][\A p \in PromiseIds :
       /\ (promise[p] = "unused" /\ promise'[p] # "unused" /\ promise'[p] # "exit")
            => /\ (promise'[p] \in {"request_noop", "exit_noop"})
                    => UNCHANGED <<prog, hist, plc, lockSubs, settled, lockPending,
                                   exitPending>>
               /\ (promise'[p] = "request_noop") <=> locked
       /\ (promise[p] = "unused" /\ promise'[p] \in {"exit", "exit_noop"})
            => /\ (promise'[p] = "exit_noop") <=> ~locked
               /\ (promise'[p] = "exit") => (exitPending' /\ p \in plc')
       /\ (promise[p] \in {"request_noop", "exit_noop"})
            => (p \notin plc' /\ p \notin lockSubs' /\ p \notin settled')
       /\ (promise[p] = "exit" /\ p \in plc /\ PointerLockChangeFires)
            => p \in settled'
       /\ (promise[p] = "exit" /\ p \in settled') => (p \in settled \/ p \in plc)
    ]_vars

C13_Witness ==
  \E p, q \in PromiseIds :
    /\ promise[p] = "request_noop"
    /\ promise[q] = "exit"
    /\ q \in settled
    /\ p \notin settled
    /\ ~locked
    /\ out.published = "down"

\* C17 as claimed: isLocked read on any pointerLock object, also one obtained
\* before the lock state changed, equals the live state of the document.
C17_IsLockedLive ==
  \A v \in held : v = locked

\* C15: a move event of a family whose listeners are attached always publishes
\* one move with dragging = isDown, whether or not the family is registered,
\* and changes none of isDown, active, registered and the attached listeners.
C15_MoveAlwaysPublished ==
  [][\A f \in Families :
       Handled(f, "move")
         => /\ out'.published = "move"
            /\ out'.dragging = isDown
            /\ UNCHANGED <<isDown, active, registered, attached>>
    ]_vars

C15_Witness ==
  /\ out.kind = "move"
  /\ out.published = "move"
  /\ out.dragging
  /\ isDown
  /\ ~registered[out.family]
  /\ \E g \in Families : registered[g]

\* C14: once destroy() has run, whatever the state it ran in, no listener of
\* any family is attached, no subscriber is left to be invoked, and no later
\* step delivers a DOM event: nothing is published, no callback is invoked and
\* the state of the instance stays as destroy() left it.
C14_DestroyIsFinal ==
  [][destroyed'
       => /\ attached' = {}
          /\ \A k \in Kinds : subs'[k] = {}
          /\ lockSubs' = {}
          /\ destroyed
               => UNCHANGED <<attached, active, registered, isDown, currentPosition,
                              lastPosition, subs, lockSubs, lockPending, out,
                              onceCalls, seen>>
    ]_vars

C14_Witness ==
  /\ destroyed
  /\ attached = {}
  /\ lateDown # {}
  /\ out.invoked # {}
  /\ promise[1] = "request"
  /\ 1 \notin settled
  /\ isPaused

\* C19: a down event discarded by duplicate suppression changes the registered
\* and active flags of its own family and nothing else: isDown, isPaused and
\* the positions stay, nothing is published, no callback is invoked, and the
\* once.down subscribers, the one of pointerLock.request() included, stay
\* registered and unfired.
C19_SuppressedDownFrame ==
  [][\A f \in Families :
       (Handled(f, "down") /\ out'.published = "none")
         => /\ UNCHANGED <<isDown, isPaused, currentPosition, lastPosition, destroyed,
                           subs, onceCalls, lockSubs, lockPending>>
            /\ out'.invoked = {}
            /\ \A g \in Families \ {f} :
                 active'[g] = active[g] /\ registered'[g] = registered[g]
            /\ registered'[f]
            /\ ~active'[f]
    ]_vars

C19_Witness ==
  /\ out.kind = "down"
  /\ out.published = "none"
  /\ ~isDown
  /\ lockSubs # {}
  /\ ~lockPending
  /\ \E s \in subs["down"] : s.once /\ onceCalls["down"][s.cb] = 0
  /\ ~active[out.family]

\* C16: within a physical interaction whose families each fire down, moves,
\* up, a move or an up is published only after a down of that interaction
\* was published.
C16_DownPrecedesMoveAndUp ==
  [][\A f \in Families : \A k \in {"move", "up"} :
       (Handled(f, k) /\ phase'[f] # "none" /\ out'.published = k)
         => gDown >= 1
    ]_vars

C16_Witness ==
  /\ gCount = 2
  /\ out.published = "up"
  /\ gDown >= 1
  /\ phase[out.family] = "up"
  /\ \E g \in Families : phase[g] = "down" /\ g \notin attached /\ g \in lateDown

\* C18: an event whose computed position differs from currentPosition moves
\* currentPosition to lastPosition and stores the new position; an event at
\* the same position changes neither.  So currentPosition and lastPosition
\* are equal only while both are still (-1,-1).
C18_PositionHistory ==
  [][/\ (\E k \in Kinds : Published(k))
          => IF out'.position # currentPosition
               THEN lastPosition' = currentPosition /\ currentPosition' = out'.position
               ELSE UNCHANGED <<currentPosition, lastPosition>>
     /\ ~destroyed'
          => \/ currentPosition' # lastPosition'
             \/ currentPosition' = InitialPosition /\ lastPosition' = InitialPosition
    ]_vars

C18_Witness ==
  /\ out.published = "move"
  /\ out.position = currentPosition
  /\ lastPosition # InitialPosition
  /\ lastPosition # currentPosition
  /\ out.locked

\* C20: until destroy(), a family's listeners are attached exactly when the
\* family is active, no family goes from inactive to active, no family goes
\* from registered to unregistered, and the pointer family is never
\* deactivated.
C20_ActiveAndRegisteredMonotone ==
  [][~destroyed'
       => /\ attached' = { f \in Families : active'[f] }
          /\ \A f \in Families :
               /\ active'[f] => active[f]
               /\ registered[f] => registered'[f]
          /\ active'["pointer"] = active["pointer"]
    ]_vars

C20_Witness ==
  /\ ~destroyed
  /\ attached = {"pointer"}
  /\ active = [f \in Families |-> f = "pointer"]
  /\ \A f \in Families : registered[f]
  /\ lateDown = {"touch", "mouse"}

====
